---- MODULE Spec2Model ----
(***************************************************************************)
(* Model of the connection-pooled database access layer of the school      *)
(* management backend (the "enhanced" pool module): transaction,           *)
(* safeClientQuery and query.                                              *)
(*                                                                         *)
(* Node.js runs every callback to completion: the code between two awaits  *)
(* is one atomic step.  Each action below is one such step: the            *)
(* continuation that runs when a promise settles, or a timer callback.     *)
(* A pg client runs the statements issued on it one at a time, first in    *)
(* first out; clientQueue / safeQueue hold the statements issued and not   *)
(* yet completed, and the head is the one on the wire.                     *)
(***************************************************************************)
EXTENDS Integers, Sequences, FiniteSets, TLC

\* Most statements the transaction body issues on its client.
MaxBodyStmts == 2
\* Largest `retries` argument query is called with.
MaxRetries == 2
\* Most calls of query in one run.
MaxCalls == 2
\* The pool's capacity (its option max) in the runs of the pool's users.
PoolMax == 2
\* Most ticks of the pool monitor in one run.
MaxTicks == 2
\* Most 'error' events of the pool in one run.
MaxPoolErrors == 2

VARIABLES
    \* ---- transaction(callback, timeout) ----
    tpc,          \* where the async function stands (which await it is parked on)
    timer,        \* timeoutHandle: "unset", "armed", "cleared", "fired"
    tmpc,         \* the timer callback: "none", "rollback" (awaiting ROLLBACK), "done", "threw"
    isReleased,   \* let isReleased
    client,       \* the pool's view of the client: "none", "inuse", "idle", "destroyed", "other"
    clientQueue,  \* statements issued on the client and not yet completed
    body,         \* the callback: "notstarted", "running", "stmt", "returned", "threw"
    bodyStmts,    \* statements the callback has issued
    txErr,        \* the error the catch block holds
    outcome,      \* how the call settled: "none", "result", or the error it rejects with
    firedAt,      \* history: the await the call was parked on when the timer fired
    orphaned,     \* statements that took effect in the database on their own, outside any
                  \* transaction, although the client saw them fail
    log,          \* history: every statement issued on, and release called on, the client
    inTx,         \* the database session of the client has a transaction open
    pending,      \* effects of the callback's statements held in the open transaction
    visible,      \* effects of the callback's statements visible in the database
    stmtsOk,      \* history: statements of the callback that succeeded
    \* ---- safeClientQuery(callback) ----
    spc,          \* "idle", "connect", "body" (awaiting the callback), "resolved", "rejected"
    stimer,       \* timeoutHandle: "unset", "armed", "cleared", "fired"
    sReleased,    \* let isReleased
    sclient,      \* the pool's view of the client
    safeQueue,    \* statements issued on the client and not yet completed
    sbody,        \* the callback: "notstarted", "running", "stmt", "returned", "threw"
    sStmts,       \* statements the callback has issued
    soutcome,     \* how the call settled
    slog,         \* history of statements and release calls on the client
    \* ---- query(text, params, retries) and connectionMetrics ----
    qpc,          \* "idle", "wait" (backoff), "race" (awaiting Promise.race), "resolved", "rejected"
    retries,      \* the retries argument
    attempt,      \* the loop variable
    lastError,    \* let lastError
    qError,       \* the error the call rejected with
    qStart,       \* Date.now() - start, in ms: time since the call began
    totalQueries, \* connectionMetrics.totalQueries
    failedQueries,\* connectionMetrics.failedQueries
    avgTimesTotal,\* connectionMetrics.avgQueryTime * totalQueries (avgQueryTime kept exact)
    outstanding,  \* pool.query round trips started and not yet settled: <<call, attempt>>
    calls,        \* history: calls of query so far
    attemptsMade, \* history: pool.query calls made by the current call
    waits,        \* history: backoff waits of the current call, in ms
    lastCause,    \* history: what failed the last attempt: "none", "rejected", "raceTimeout", "poolTimeout"
    nFailed,      \* history: attempts that ended in the catch block
    nSucceeded,   \* history: calls that returned a result
    avgUpdates,   \* history: assignments to connectionMetrics.avgQueryTime
    sumSuccess,   \* history: sum of the durations logged by the calls that returned a result
    \* ---- the pool, its users, healthCheck, poolMonitor, gracefulShutdown ----
    pq,           \* each pool.query call: "idle", "waiting", "connecting", "running", "resolved", "rejected"
    waitQueue,    \* the calls waiting for a client, oldest first (pool.waitingCount = its length)
    total,        \* pool.totalCount: clients the pool has open or is opening
    idle,         \* pool.idleCount
    poolEnding,   \* pool.end() has been called
    endCalls,     \* history: calls of pool.end()
    monitorOn,    \* the interval poolMonitor is armed
    ticks,        \* history: runs of the poolMonitor callback
    tickAfterEnd, \* history: the poolMonitor callback ran after a call of pool.end()
    shut,         \* each call of gracefulShutdown: "none", "awaitEnd", "endRejected", "closed", "endError"
    healthResult, \* what healthCheck() resolved to: NoResult before it returns
    waited,       \* history: the calls that were put on the wait queue
    \* ---- pool.on('error') ----
    mLastError,     \* connectionMetrics.lastError: "null" or err.message
    mLastErrorTime, \* connectionMetrics.lastErrorTime: 0 for null, else the time of the event
    poolErrors,     \* history: 'error' events so far; the n-th happens at time n
    \* ---- transaction(callback) of the simple pool module ----
    simpleTxns,   \* the calls made so far, one record each:
                  \*   pc: where the async function stands: "connect", "begin", "body",
                  \*       "commit", "rollback", "resolved", "rejected";
                  \*   timer (const timeout): "unset", "armed", "cleared", "fired", "threw";
                  \*   client: the pool's view of the call's client;
                  \*   queue: statements issued on the client and not yet completed;
                  \*   body (the callback): "notstarted", "running", "stmt", "returned", "threw";
                  \*   stmts: statements the callback has issued;
                  \*   err: the error the catch block holds;
                  \*   outcome: how the call settled;
                  \*   log (history): statements and release calls on the client
    \* ---- routes/auth.js: POST /send-otp and POST /verify-otp, for one phone ----
    otpStore,     \* otpStore.get(phone): NoOtp or the stored entry
    otpNow,       \* Date.now()
    clockSteps,   \* how often the clock has advanced
    sendPc,       \* the /send-otp handler: "idle", "checked"
    sends,        \* OTPs stored so far; the n-th stored entry has gen = n
    registered,   \* a users row exists for the phone
    verifyReqs,   \* the /verify-otp requests received so far, one record each:
                  \*   pc: "hash", "txn", "done"; status: the HTTP status answered, 0 before;
                  \*   found, left (history): the entry the request found in the store and
                  \*   the entry its checks left there;
                  \*   verdict (history): "missing", "wrong", "expired", "accepted"
    \* ---- middleware/auth.js: verifyToken ----
    authReqs      \* the requests received so far, one record each:
                  \*   pc: "race" (awaiting Promise.race), "done";
                  \*   timer (the 5 s timer): "unset", "armed", "fired";
                  \*   query (queryPromise): "none", "pending", "settled";
                  \*   token (history): what jwt.verify made of the token;
                  \*   lookup (history): how the user lookup settled;
                  \*   winner (history): what settled the race: "none", "query", "timer";
                  \*   nextCalls: how often next() was called;
                  \*   responses: the HTTP statuses sent, in order;
                  \*   reqUser: whether req.user was set

dbVars == <<inTx, pending, visible, stmtsOk>>

txnVars == <<tpc, timer, tmpc, isReleased, client, clientQueue, body, bodyStmts,
             txErr, outcome, firedAt, orphaned, log, dbVars>>

safeVars == <<spc, stimer, sReleased, sclient, safeQueue, sbody, sStmts, soutcome, slog>>

queryVars == <<qpc, retries, attempt, lastError, qError, qStart, totalQueries,
               failedQueries, avgTimesTotal, outstanding, calls, attemptsMade, waits,
               lastCause, nFailed, nSucceeded, avgUpdates, sumSuccess>>

opsVars == <<pq, waitQueue, total, idle, poolEnding, endCalls, monitorOn, ticks,
             tickAfterEnd, shut, healthResult, waited>>

eventVars == <<mLastError, mLastErrorTime, poolErrors>>

\* let connectionMetrics
metricsVars == <<totalQueries, failedQueries, avgTimesTotal, mLastError, mLastErrorTime>>

\* the state of query that is not in connectionMetrics
queryRest == <<qpc, retries, attempt, lastError, qError, qStart, outstanding, calls,
               attemptsMade, waits, lastCause, nFailed, nSucceeded, avgUpdates, sumSuccess>>

simpleVars == <<simpleTxns>>

otpVars == <<otpStore, otpNow, clockSteps, sendPc, sends, registered, verifyReqs>>

authVars == <<authReqs>>

vars == <<txnVars, safeVars, queryVars, opsVars, eventVars, simpleVars, otpVars, authVars>>

Ev(who, op) == [who |-> who, op |-> op]

\* the statements that end a transaction
EndOps == {"COMMIT", "ROLLBACK"}

\* What a statement that completes can report: on a client the pool has
\* destroyed (release(true) ends the connection) it can only fail.
StmtResults(c) == IF c = "destroyed" THEN {FALSE} ELSE BOOLEAN

\* client.release(err) throws when this checkout was already released; the
\* pool installs a fresh release function at every checkout, so on a client
\* since handed to another operation the call releases that checkout.
ReleaseThrows(c) == c \in {"idle", "destroyed"}

ClientAfterRelease(c, err) ==
    IF ReleaseThrows(c) THEN c ELSE IF err THEN "destroyed" ELSE "idle"

\* the event a release call leaves in the history
ReleaseEv(who, err) == Ev(who, IF err THEN "releaseErr" ELSE "release")

\* clearTimeout(timeoutHandle): a timer that already fired is not undone
ClearTimeout(t) == IF t = "armed" THEN "cleared" ELSE t

\* the session's transaction and the callback's effects
DbNow == [inTx |-> inTx, pending |-> pending, visible |-> visible]
SetDb(d) == inTx' = d.inTx /\ pending' = d.pending /\ visible' = d.visible

\* what the statement op does to the database when it succeeds: a statement
\* outside a transaction takes effect at once
DbAfter(d, op, ok) ==
    IF ~ok THEN d
    ELSE CASE op = "BEGIN" -> [d EXCEPT !.inTx = TRUE]
           [] op = "STMT" -> IF d.inTx THEN [d EXCEPT !.pending = d.pending + 1]
                                       ELSE [d EXCEPT !.visible = d.visible + 1]
           [] op = "COMMIT" -> [inTx |-> FALSE, pending |-> 0,
                                visible |-> d.visible + d.pending]
           [] op = "ROLLBACK" -> [d EXCEPT !.inTx = FALSE, !.pending = 0]

\* release(true) ends the connection: the server aborts its open transaction
DbAfterRelease(d, c, err) ==
    IF err /\ ~ReleaseThrows(c) THEN [d EXCEPT !.inTx = FALSE, !.pending = 0] ELSE d

TxnInit ==
    /\ inTx = FALSE
    /\ pending = 0
    /\ visible = 0
    /\ stmtsOk = 0
    /\ tpc = "idle"
    /\ timer = "unset"
    /\ tmpc = "none"
    /\ isReleased = FALSE
    /\ client = "none"
    /\ clientQueue = <<>>
    /\ body = "notstarted"
    /\ bodyStmts = 0
    /\ txErr = "none"
    /\ outcome = "none"
    /\ firedAt = "none"
    /\ orphaned = 0
    /\ log = <<>>

\* transaction() is called: await pool.connect()
TxnCall ==
    /\ UNCHANGED <<firedAt, orphaned, dbVars>>
    /\ tpc = "idle"
    /\ tpc' = "connect"
    /\ UNCHANGED <<timer, tmpc, isReleased, client, clientQueue, body, bodyStmts,
                   txErr, outcome, log>>

\* as if the timer were armed before the await of pool.connect()
TxnConnectFailTimerArmed ==
    /\ UNCHANGED <<firedAt, orphaned, dbVars>>
    /\ tpc = "connect"
    /\ tpc' = "rejected"
    /\ outcome' = "connectError"
    /\ timer' = "armed"
    /\ UNCHANGED <<tmpc, isReleased, client, clientQueue, body, bodyStmts, txErr, log>>

\* pool.connect() rejects: the call rejects before anything else happens
TxnConnectFail ==
    /\ UNCHANGED <<firedAt, orphaned, dbVars>>
    /\ tpc = "connect"
    /\ tpc' = "rejected"
    /\ outcome' = "connectError"
    /\ UNCHANGED <<timer, tmpc, isReleased, client, clientQueue, body, bodyStmts,
                   txErr, log>>

\* pool.connect() resolves: isReleased = false, the timer is armed and BEGIN
\* is issued, all before the next await
TxnConnectOk ==
    /\ UNCHANGED <<firedAt, orphaned, dbVars>>
    /\ tpc = "connect"
    /\ client' = "inuse"
    /\ isReleased' = FALSE
    /\ timer' = "armed"
    /\ clientQueue' = Append(clientQueue, Ev("main", "BEGIN"))
    /\ log' = Append(log, Ev("main", "BEGIN"))
    /\ tpc' = "begin"
    /\ UNCHANGED <<tmpc, body, bodyStmts, txErr, outcome>>

\* A catch block that releases without rolling back.
TxnCatchNoRollback(error, q) ==
    /\ timer' = ClearTimeout(timer)
    /\ clientQueue' = q
    /\ IF ~isReleased
         THEN /\ log' = Append(log, ReleaseEv("main", TRUE))
              /\ client' = ClientAfterRelease(client, TRUE)
              /\ isReleased' = TRUE
         ELSE UNCHANGED <<log, client, isReleased>>
    /\ SetDb(IF ~isReleased THEN DbAfterRelease(DbNow, client, TRUE) ELSE DbNow)
    /\ tpc' = "rejected"
    /\ txErr' = error
    /\ outcome' = error
    /\ UNCHANGED tmpc

\* A catch block that hands the client back without rolling back.
TxnCatchPlainRelease(error, q) ==
    /\ timer' = ClearTimeout(timer)
    /\ clientQueue' = q
    /\ IF ~isReleased
         THEN /\ log' = Append(log, ReleaseEv("main", FALSE))
              /\ client' = ClientAfterRelease(client, FALSE)
              /\ isReleased' = TRUE
         ELSE UNCHANGED <<log, client, isReleased>>
    /\ SetDb(DbNow)
    /\ tpc' = "rejected"
    /\ txErr' = error
    /\ outcome' = error
    /\ UNCHANGED tmpc

\* The catch block, entered with `error` when the statement at the head of
\* the queue (or the callback) has just failed; q is the queue without it.
TxnCatch(error, q) ==
    /\ timer' = ClearTimeout(timer)
    /\ IF ~isReleased
         THEN /\ clientQueue' = Append(q, Ev("main", "ROLLBACK"))
              /\ log' = Append(log, Ev("main", "ROLLBACK"))
              /\ tpc' = "rollback"
              /\ txErr' = error
              /\ outcome' = outcome
         ELSE /\ clientQueue' = q
              /\ log' = log
              /\ tpc' = "rejected"
              /\ txErr' = error
              /\ outcome' = error
    /\ SetDb(DbNow)
    /\ UNCHANGED <<tmpc, isReleased, client>>

\* await client.query('BEGIN') settles
TxnBeginDone ==
    /\ UNCHANGED <<firedAt, orphaned, stmtsOk>>
    /\ tpc = "begin"
    /\ clientQueue # <<>> /\ Head(clientQueue) = Ev("main", "BEGIN")
    /\ \E ok \in StmtResults(client) :
         IF ok
           THEN /\ tpc' = "body"
                /\ body' = "running"
                /\ clientQueue' = Tail(clientQueue)
                /\ SetDb(DbAfter(DbNow, "BEGIN", TRUE))
                /\ UNCHANGED <<timer, tmpc, isReleased, client, bodyStmts, txErr,
                               outcome, log>>
           ELSE /\ TxnCatch("beginError", Tail(clientQueue))
                /\ UNCHANGED <<body, bodyStmts>>

\* the callback issues a statement on the client and awaits it
BodyIssue ==
    /\ UNCHANGED <<firedAt, orphaned, dbVars>>
    /\ tpc = "body" /\ body = "running"
    /\ bodyStmts < MaxBodyStmts
    /\ body' = "stmt"
    /\ bodyStmts' = bodyStmts + 1
    /\ clientQueue' = Append(clientQueue, Ev("body", "STMT"))
    /\ log' = Append(log, Ev("body", "STMT"))
    /\ UNCHANGED <<tpc, timer, tmpc, isReleased, client, txErr, outcome>>

\* the callback's statement settles; a failure makes the callback throw
BodyStmtDone ==
    /\ UNCHANGED <<firedAt, orphaned>>
    /\ tpc = "body" /\ body = "stmt"
    /\ clientQueue # <<>> /\ Head(clientQueue) = Ev("body", "STMT")
    /\ \E ok \in StmtResults(client) :
         IF ok
           THEN /\ body' = "running"
                /\ clientQueue' = Tail(clientQueue)
                /\ SetDb(DbAfter(DbNow, "STMT", TRUE))
                /\ stmtsOk' = stmtsOk + 1
                /\ UNCHANGED <<tpc, timer, tmpc, isReleased, client, bodyStmts,
                               txErr, outcome, log>>
           ELSE /\ body' = "threw"
                /\ TxnCatch("bodyError", Tail(clientQueue))
                /\ UNCHANGED <<bodyStmts, stmtsOk>>

\* the callback throws for a reason of its own
BodyThrow ==
    /\ UNCHANGED <<firedAt, orphaned, stmtsOk>>
    /\ tpc = "body" /\ body = "running"
    /\ body' = "threw"
    /\ TxnCatch("bodyError", clientQueue)
    /\ UNCHANGED bodyStmts

\* the callback returns: await client.query('COMMIT')
BodyReturn ==
    /\ UNCHANGED <<firedAt, orphaned, dbVars>>
    /\ tpc = "body" /\ body = "running"
    /\ body' = "returned"
    /\ tpc' = "commit"
    /\ clientQueue' = Append(clientQueue, Ev("main", "COMMIT"))
    /\ log' = Append(log, Ev("main", "COMMIT"))
    /\ UNCHANGED <<timer, tmpc, isReleased, client, bodyStmts, txErr, outcome>>

\* await client.query('COMMIT') settles
TxnCommitDone ==
    /\ UNCHANGED <<firedAt, orphaned, stmtsOk>>
    /\ tpc = "commit"
    /\ clientQueue # <<>> /\ Head(clientQueue) = Ev("main", "COMMIT")
    /\ \E ok \in StmtResults(client) :
         IF ok
           THEN /\ timer' = ClearTimeout(timer)
                /\ clientQueue' = Tail(clientQueue)
                /\ IF ~isReleased
                     THEN /\ client' = ClientAfterRelease(client, FALSE)
                          /\ log' = Append(log, ReleaseEv("main", FALSE))
                          /\ isReleased' = TRUE
                     ELSE UNCHANGED <<client, log, isReleased>>
                /\ SetDb(DbAfter(DbNow, "COMMIT", TRUE))
                /\ tpc' = "resolved"
                /\ outcome' = "result"
                /\ UNCHANGED <<tmpc, body, bodyStmts, txErr>>
           ELSE /\ TxnCatch("commitError", Tail(clientQueue))
                /\ UNCHANGED <<body, bodyStmts>>

\* the catch block's await client.query('ROLLBACK') settles (a failure is
\* logged and swallowed): release(true), then rethrow
TxnRollbackDone ==
    /\ UNCHANGED <<firedAt, orphaned, stmtsOk>>
    /\ tpc = "rollback"
    /\ clientQueue # <<>> /\ Head(clientQueue) = Ev("main", "ROLLBACK")
    /\ \E ok \in StmtResults(client) :
         /\ clientQueue' = Tail(clientQueue)
         /\ log' = Append(log, ReleaseEv("main", TRUE))
         /\ client' = ClientAfterRelease(client, TRUE)
         /\ SetDb(DbAfterRelease(DbAfter(DbNow, "ROLLBACK", ok), client, TRUE))
         /\ IF ReleaseThrows(client)
              THEN /\ outcome' = "releaseError"
                   /\ UNCHANGED isReleased
              ELSE /\ outcome' = txErr
                   /\ isReleased' = TRUE
         /\ tpc' = "rejected"
    /\ UNCHANGED <<timer, tmpc, body, bodyStmts, txErr>>

\* the timeout elapses and the timer callback runs
TxnTimerFire ==
    /\ timer = "armed"
    /\ timer' = "fired"
    /\ firedAt' = tpc
    /\ UNCHANGED <<orphaned, dbVars>>
    /\ IF ~isReleased
         THEN /\ clientQueue' = Append(clientQueue, Ev("timer", "ROLLBACK"))
              /\ log' = Append(log, Ev("timer", "ROLLBACK"))
              /\ tmpc' = "rollback"
         ELSE /\ tmpc' = "done"
              /\ UNCHANGED <<clientQueue, log>>
    /\ UNCHANGED <<tpc, isReleased, client, body, bodyStmts, txErr, outcome>>

\* whether the statement queued behind a ROLLBACK that has just succeeded
\* gets executed: the client sends the next queued statement as soon as the
\* ROLLBACK is answered, the callback awaiting the ROLLBACK resumes after
\* that and destroys the connection, so the statement may or may not have
\* reached the server, where it runs outside any transaction
SentBehind(q, ok) ==
    IF ok /\ Tail(q) # <<>> /\ Head(Tail(q)) = Ev("body", "STMT") THEN BOOLEAN ELSE {FALSE}

\* the timer callback's await client.query('ROLLBACK') settles:
\* client.release(true); isReleased = true
TxnTimerRollbackDone ==
    /\ UNCHANGED <<firedAt, stmtsOk>>
    /\ tmpc = "rollback"
    /\ clientQueue # <<>> /\ Head(clientQueue) = Ev("timer", "ROLLBACK")
    /\ \E ok \in StmtResults(client) :
         /\ \E sent \in SentBehind(clientQueue, ok) :
              orphaned' = orphaned + IF sent THEN 1 ELSE 0
         /\ clientQueue' = Tail(clientQueue)
         /\ log' = Append(log, ReleaseEv("timer", TRUE))
         /\ client' = ClientAfterRelease(client, TRUE)
         /\ SetDb(DbAfterRelease(DbAfter(DbNow, "ROLLBACK", ok), client, TRUE))
         /\ IF ReleaseThrows(client)
              THEN /\ tmpc' = "threw"
                   /\ UNCHANGED isReleased
              ELSE /\ tmpc' = "done"
                   /\ isReleased' = TRUE
    /\ UNCHANGED <<tpc, timer, body, bodyStmts, txErr, outcome>>

\* the pool hands the idle client to another operation, which ends whatever
\* transaction the session was left in
PoolHandOut ==
    /\ UNCHANGED <<firedAt, orphaned, stmtsOk>>
    /\ client = "idle"
    /\ client' = "other"
    /\ \E op \in EndOps : SetDb(DbAfter(DbNow, op, TRUE))
    /\ log' = Append(log, Ev("pool", "handout"))
    /\ UNCHANGED <<tpc, timer, tmpc, isReleased, clientQueue, body, bodyStmts,
                   txErr, outcome>>

SafeInit ==
    /\ spc = "idle"
    /\ stimer = "unset"
    /\ sReleased = FALSE
    /\ sclient = "none"
    /\ safeQueue = <<>>
    /\ sbody = "notstarted"
    /\ sStmts = 0
    /\ soutcome = "none"
    /\ slog = <<>>

\* safeClientQuery() is called: await pool.connect()
SafeCall ==
    /\ spc = "idle"
    /\ spc' = "connect"
    /\ UNCHANGED <<stimer, sReleased, sclient, safeQueue, sbody, sStmts, soutcome, slog>>

\* pool.connect() rejects
SafeConnectFail ==
    /\ spc = "connect"
    /\ spc' = "rejected"
    /\ soutcome' = "connectError"
    /\ UNCHANGED <<stimer, sReleased, sclient, safeQueue, sbody, sStmts, slog>>

\* pool.connect() resolves: isReleased = false, the safety timer is armed and
\* the callback is called
SafeConnectOk ==
    /\ spc = "connect"
    /\ sclient' = "inuse"
    /\ sReleased' = FALSE
    /\ stimer' = "armed"
    /\ sbody' = "running"
    /\ spc' = "body"
    /\ UNCHANGED <<safeQueue, sStmts, soutcome, slog>>

\* the callback issues a statement on the client and awaits it
SafeBodyIssue ==
    /\ spc = "body" /\ sbody = "running"
    /\ sStmts < MaxBodyStmts
    /\ sbody' = "stmt"
    /\ sStmts' = sStmts + 1
    /\ safeQueue' = Append(safeQueue, Ev("body", "STMT"))
    /\ slog' = Append(slog, Ev("body", "STMT"))
    /\ UNCHANGED <<spc, stimer, sReleased, sclient, soutcome>>

\* A catch block that releases without looking at isReleased.
SafeCatchUnguarded(error) ==
    /\ stimer' = ClearTimeout(stimer)
    /\ sclient' = ClientAfterRelease(sclient, TRUE)
    /\ slog' = Append(slog, ReleaseEv("main", TRUE))
    /\ sReleased' = TRUE
    /\ spc' = "rejected"
    /\ soutcome' = IF ReleaseThrows(sclient) THEN "releaseError" ELSE error

\* The catch block of safeClientQuery, entered with `error`.
SafeCatch(error) ==
    /\ stimer' = ClearTimeout(stimer)
    /\ IF ~sReleased
         THEN /\ sclient' = ClientAfterRelease(sclient, TRUE)
              /\ slog' = Append(slog, ReleaseEv("main", TRUE))
              /\ sReleased' = TRUE
         ELSE UNCHANGED <<sclient, slog, sReleased>>
    /\ spc' = "rejected"
    /\ soutcome' = error

\* the callback's statement settles; a failure makes the callback throw
SafeBodyStmtDone ==
    /\ spc = "body" /\ sbody = "stmt"
    /\ safeQueue # <<>> /\ Head(safeQueue) = Ev("body", "STMT")
    /\ safeQueue' = Tail(safeQueue)
    /\ \E ok \in StmtResults(sclient) :
         IF ok
           THEN /\ sbody' = "running"
                /\ UNCHANGED <<spc, stimer, sReleased, sclient, soutcome, slog>>
           ELSE /\ sbody' = "threw"
                /\ SafeCatch("bodyError")
    /\ UNCHANGED sStmts

\* the callback throws for a reason of its own
SafeBodyThrow ==
    /\ spc = "body" /\ sbody = "running"
    /\ sbody' = "threw"
    /\ SafeCatch("bodyError")
    /\ UNCHANGED <<safeQueue, sStmts>>

\* the callback returns: clearTimeout, release unless released, return
SafeBodyReturn ==
    /\ spc = "body" /\ sbody = "running"
    /\ sbody' = "returned"
    /\ stimer' = ClearTimeout(stimer)
    /\ IF ~sReleased
         THEN /\ sclient' = ClientAfterRelease(sclient, FALSE)
              /\ slog' = Append(slog, ReleaseEv("main", FALSE))
              /\ sReleased' = TRUE
         ELSE UNCHANGED <<sclient, slog, sReleased>>
    /\ spc' = "resolved"
    /\ soutcome' = "result"
    /\ UNCHANGED <<safeQueue, sStmts>>

\* A safety timer that only logs.
SafeTimerFireNoRelease ==
    /\ stimer = "armed"
    /\ stimer' = "fired"
    /\ UNCHANGED <<spc, sReleased, sclient, safeQueue, sbody, sStmts, soutcome, slog>>

\* the 30 s safety timer fires: release(true) unless released
SafeTimerFire ==
    /\ stimer = "armed"
    /\ stimer' = "fired"
    /\ IF ~sReleased
         THEN /\ sclient' = ClientAfterRelease(sclient, TRUE)
              /\ slog' = Append(slog, ReleaseEv("timer", TRUE))
              /\ sReleased' = TRUE
         ELSE UNCHANGED <<sclient, slog, sReleased>>
    /\ UNCHANGED <<spc, safeQueue, sbody, sStmts, soutcome>>

\* the pool hands the idle client to another operation
SafePoolHandOut ==
    /\ sclient = "idle"
    /\ sclient' = "other"
    /\ slog' = Append(slog, Ev("pool", "handout"))
    /\ UNCHANGED <<spc, stimer, sReleased, safeQueue, sbody, sStmts, soutcome>>

(***************************************************************************)
(* query(text, params, retries)                                            *)
(***************************************************************************)
\* An error: its code ("undefined" when it carries none), whether its message
\* contains 'syntax error', and the attempt that raised it.
Err(code, syntax, at) == [code |-> code, syntax |-> syntax, at |-> at]
NoError == Err("undefined", FALSE, -1)

\* what pool.query can reject with
ErrorCodes == {"23505", "23503", "42P01", "42703", "42601", "ECONNRESET", "undefined"}

\* new Error('Query timeout after 30s')
TimeoutError(at) == Err("undefined", FALSE, at)

\* setTimeout(..., 30000) of the timeout promise
QueryTimeoutMs == 30000
\* the factor of the backoff wait
BackoffUnitMs == 1000
\* connectionTimeoutMillis: how long pool.query waits for a connection
ConnectionTimeoutMs == 10000
\* what pool.query rejects with when no connection came in time:
\* Error('timeout exceeded when trying to connect'), which carries no code
PoolTimeoutError(at) == Err("undefined", FALSE, at)
\* how long a pool.query that settles before the timeout takes, in ms
RoundTripTimes == {20}

RECURSIVE Pow2(_)
Pow2(n) == IF n = 0 THEN 1 ELSE 2 * Pow2(n - 1)

\* A backoff that grows linearly.
BackoffLinear(a) == a * BackoffUnitMs

\* Math.pow(2, attempt) * 1000
Backoff(a) == Pow2(a) * BackoffUnitMs

\* A classification that retries unique violations.
IsNonRetryableNoUnique(e) ==
    \/ e.code \in {"23503", "42P01", "42703"}
    \/ e.syntax

\* "Don't retry on certain errors"
IsNonRetryable(e) ==
    \/ e.code = "23505"
    \/ e.code = "23503"
    \/ e.code = "42P01"
    \/ e.code = "42703"
    \/ e.syntax

QueryInit ==
    /\ qpc = "idle"
    /\ retries = 0
    /\ attempt = 0
    /\ lastError = NoError
    /\ qError = NoError
    /\ qStart = 0
    /\ totalQueries = 0
    /\ failedQueries = 0
    /\ avgTimesTotal = 0
    /\ outstanding = {}
    /\ calls = 0
    /\ attemptsMade = 0
    /\ waits = <<>>
    /\ lastCause = "none"
    /\ nFailed = 0
    /\ nSucceeded = 0
    /\ avgUpdates = 0
    /\ sumSuccess = 0

\* query(text, params, r) is called: attempt 0 starts at once, pool.query is
\* issued and raced against the timeout
QueryCall ==
    /\ qpc \in {"idle", "resolved", "rejected"}
    /\ calls < MaxCalls
    /\ \E r \in 0..MaxRetries : retries' = r
    /\ calls' = calls + 1
    /\ attempt' = 0
    /\ lastError' = NoError
    /\ qError' = NoError
    /\ qStart' = 0
    /\ attemptsMade' = 1
    /\ waits' = <<>>
    /\ outstanding' = outstanding \cup {<<calls + 1, 0>>}
    /\ qpc' = "race"
    /\ lastCause' = "none"
    /\ UNCHANGED <<totalQueries, failedQueries, avgTimesTotal, nFailed, nSucceeded,
                   avgUpdates, sumSuccess>>

\* A catch block that gives up on an error without a code, as the pool's
\* connect timeout is.
QueryCatchNoPoolRetry(e, dt) ==
    /\ lastError' = e
    /\ failedQueries' = failedQueries + 1
    /\ IF IsNonRetryable(e) \/ attempt = retries \/ e.code = "undefined"
         THEN /\ qpc' = "rejected"
              /\ qError' = e
              /\ qStart' = qStart + dt
              /\ UNCHANGED <<attempt, waits>>
         ELSE /\ qpc' = "wait"
              /\ attempt' = attempt + 1
              /\ waits' = Append(waits, Backoff(attempt + 1))
              /\ qStart' = qStart + dt
              /\ UNCHANGED qError
    /\ UNCHANGED <<retries, totalQueries, avgTimesTotal, calls, attemptsMade>>

\* A catch block that counts only the failure that ends the call.
QueryCatchCountsLast(e, dt) ==
    /\ lastError' = e
    /\ IF IsNonRetryable(e) \/ attempt = retries
         THEN /\ qpc' = "rejected"
              /\ qError' = e
              /\ qStart' = qStart + dt
              /\ failedQueries' = failedQueries + 1
              /\ UNCHANGED <<attempt, waits>>
         ELSE /\ qpc' = "wait"
              /\ attempt' = attempt + 1
              /\ waits' = Append(waits, Backoff(attempt + 1))
              /\ qStart' = qStart + dt
              /\ UNCHANGED <<qError, failedQueries>>
    /\ UNCHANGED <<retries, totalQueries, avgTimesTotal, calls, attemptsMade>>

\* A catch block that folds the failed attempt's duration into the average.
QueryCatchFoldsDuration(e, dt) ==
    /\ lastError' = e
    /\ failedQueries' = failedQueries + 1
    /\ avgTimesTotal' = avgTimesTotal + (qStart + dt)
    /\ IF IsNonRetryable(e) \/ attempt = retries
         THEN /\ qpc' = "rejected"
              /\ qError' = e
              /\ qStart' = qStart + dt
              /\ UNCHANGED <<attempt, waits>>
         ELSE /\ qpc' = "wait"
              /\ attempt' = attempt + 1
              /\ waits' = Append(waits, Backoff(attempt + 1))
              /\ qStart' = qStart + dt
              /\ UNCHANGED qError
    /\ UNCHANGED <<retries, totalQueries, calls, attemptsMade>>

\* The catch block, entered with error e after dt ms in the race.
QueryCatch(e, dt) ==
    /\ lastError' = e
    /\ failedQueries' = failedQueries + 1
    /\ IF IsNonRetryable(e) \/ attempt = retries
         THEN /\ qpc' = "rejected"
              /\ qError' = e
              /\ qStart' = qStart + dt
              /\ UNCHANGED <<attempt, waits>>
         ELSE /\ qpc' = "wait"
              /\ attempt' = attempt + 1
              /\ waits' = Append(waits, Backoff(attempt + 1))
              /\ qStart' = qStart + dt
              /\ UNCHANGED qError
    /\ UNCHANGED <<retries, totalQueries, avgTimesTotal, calls, attemptsMade>>

\* A query that takes `start` at the beginning of each attempt.
QuerySucceedAttemptOnly ==
    /\ qpc = "race"
    /\ \E dt \in RoundTripTimes :
         /\ qStart' = qStart + dt
         /\ avgTimesTotal' = avgTimesTotal + dt
         /\ sumSuccess' = sumSuccess + dt
    /\ totalQueries' = totalQueries + 1
    /\ outstanding' = outstanding \ {<<calls, attempt>>}
    /\ qpc' = "resolved"
    /\ nSucceeded' = nSucceeded + 1
    /\ avgUpdates' = avgUpdates + 1
    /\ UNCHANGED <<retries, attempt, lastError, qError, failedQueries, calls,
                   attemptsMade, waits, lastCause, nFailed>>

\* pool.query resolves before the timeout: metrics, return res
QuerySucceed ==
    /\ qpc = "race"
    /\ \E dt \in RoundTripTimes :
         /\ qStart' = qStart + dt
         /\ avgTimesTotal' = avgTimesTotal + (qStart + dt)
         /\ sumSuccess' = sumSuccess + (qStart + dt)
    /\ totalQueries' = totalQueries + 1
    /\ outstanding' = outstanding \ {<<calls, attempt>>}
    /\ qpc' = "resolved"
    /\ nSucceeded' = nSucceeded + 1
    /\ avgUpdates' = avgUpdates + 1
    /\ UNCHANGED <<retries, attempt, lastError, qError, failedQueries, calls,
                   attemptsMade, waits, lastCause, nFailed>>

\* pool.query rejects before the timeout
QueryFail ==
    /\ qpc = "race"
    /\ outstanding' = outstanding \ {<<calls, attempt>>}
    /\ \E c \in ErrorCodes, sx \in BOOLEAN, dt \in RoundTripTimes :
         QueryCatch(Err(c, sx, attempt), dt)
    /\ lastCause' = "rejected"
    /\ nFailed' = nFailed + 1
    /\ UNCHANGED <<nSucceeded, avgUpdates, sumSuccess>>

\* pool.query rejects because the pool handed out no connection within
\* connectionTimeoutMillis
QueryPoolTimeout ==
    /\ qpc = "race"
    /\ outstanding' = outstanding \ {<<calls, attempt>>}
    /\ QueryCatch(PoolTimeoutError(attempt), ConnectionTimeoutMs)
    /\ lastCause' = "poolTimeout"
    /\ nFailed' = nFailed + 1
    /\ UNCHANGED <<nSucceeded, avgUpdates, sumSuccess>>

\* the 30 s timeout wins the race; pool.query stays in flight
QueryTimeout ==
    /\ qpc = "race"
    /\ QueryCatch(TimeoutError(attempt), QueryTimeoutMs)
    /\ lastCause' = "raceTimeout"
    /\ nFailed' = nFailed + 1
    /\ UNCHANGED <<outstanding, nSucceeded, avgUpdates, sumSuccess>>

\* the backoff wait is over: the next attempt issues pool.query
QueryBackoffDone ==
    /\ qpc = "wait"
    /\ qStart' = qStart + Backoff(attempt)
    /\ attemptsMade' = attemptsMade + 1
    /\ outstanding' = outstanding \cup {<<calls, attempt>>}
    /\ qpc' = "race"
    /\ UNCHANGED <<retries, attempt, lastError, qError, totalQueries, failedQueries,
                   avgTimesTotal, calls, waits, lastCause, nFailed, nSucceeded,
                   avgUpdates, sumSuccess>>

\* A late settlement that is counted like a result that came in time.
QueryLateSettleCounts ==
    /\ \E o \in outstanding :
         /\ ~(qpc = "race" /\ o = <<calls, attempt>>)
         /\ outstanding' = outstanding \ {o}
    /\ totalQueries' = totalQueries + 1
    /\ UNCHANGED <<qpc, retries, attempt, lastError, qError, qStart,
                   failedQueries, avgTimesTotal, calls, attemptsMade, waits, lastCause,
                   nFailed, nSucceeded, avgUpdates, sumSuccess>>

\* the pool.query of an attempt that lost the race settles, with a result or
\* an error; nobody is waiting for it
QueryLateSettle ==
    /\ \E o \in outstanding :
         /\ ~(qpc = "race" /\ o = <<calls, attempt>>)
         /\ outstanding' = outstanding \ {o}
    /\ UNCHANGED <<qpc, retries, attempt, lastError, qError, qStart, totalQueries,
                   failedQueries, avgTimesTotal, calls, attemptsMade, waits, lastCause,
                   nFailed, nSucceeded, avgUpdates, sumSuccess>>

(***************************************************************************)
(* The pool and its users: pool.query, healthCheck, poolMonitor,           *)
(* gracefulShutdown                                                        *)
(***************************************************************************)
\* the pool.query of healthCheck, and those of concurrent calls of query
HealthUser == 0
QueryUsers == 1..(PoolMax + 1)
Users == {HealthUser} \cup QueryUsers

\* process.on('SIGTERM', gracefulShutdown), process.on('SIGINT', gracefulShutdown)
Signals == {"SIGTERM", "SIGINT"}

\* error.message of what pool.query rejects with
PoolEndedMessage == "Cannot use a pool after calling end on the pool"
ConnectTimeoutMessage == "timeout exceeded when trying to connect"
\* a refused connection: the message of the socket's error; the error node
\* raises when every address of the host refused has an empty message
ConnectErrorMessages == {"connect ECONNREFUSED", ""}
QueryErrorMessages == {"Connection terminated unexpectedly"}

NoResult == [status |-> "none", error |-> "absent"]

\* the object healthCheck resolves to
HealthReturn(ok, message) ==
    IF ok THEN [status |-> "healthy", error |-> "absent"]
          ELSE [status |-> "unhealthy", error |-> message]

\* A healthCheck that runs its liveness query through query(), which counts it.
HealthAfterCounts(c, ok, message) ==
    /\ healthResult' = IF c = HealthUser THEN HealthReturn(ok, message) ELSE healthResult
    /\ totalQueries' = IF c = HealthUser /\ ok THEN totalQueries + 1 ELSE totalQueries
    /\ failedQueries' = IF c = HealthUser /\ ~ok THEN failedQueries + 1 ELSE failedQueries
    /\ UNCHANGED <<avgTimesTotal, mLastError, mLastErrorTime>>

\* the continuation of healthCheck runs when its pool.query settles: it
\* builds the object it returns and writes nothing
HealthAfter(c, ok, message) ==
    /\ healthResult' = IF c = HealthUser THEN HealthReturn(ok, message) ELSE healthResult
    /\ UNCHANGED metricsVars

Without(q, c) == SelectSeq(q, LAMBDA x : x # c)

OpsInit ==
    /\ pq = [c \in Users |-> "idle"]
    /\ waitQueue = <<>>
    /\ total = 0
    /\ idle = 0
    /\ poolEnding = FALSE
    /\ endCalls = 0
    /\ monitorOn = TRUE
    /\ ticks = 0
    /\ tickAfterEnd = FALSE
    /\ shut = [g \in Signals |-> "none"]
    /\ healthResult = NoResult
    /\ waited = {}

\* A pool that opens a client for every call.
AdmitNoLimit(c) ==
    /\ IF poolEnding
         THEN /\ pq' = [pq EXCEPT ![c] = "rejected"]
              /\ HealthAfter(c, FALSE, PoolEndedMessage)
              /\ UNCHANGED <<waitQueue, total, idle, waited>>
         ELSE /\ UNCHANGED healthResult
              /\ IF idle > 0
                   THEN /\ idle' = idle - 1
                        /\ pq' = [pq EXCEPT ![c] = "running"]
                        /\ UNCHANGED <<waitQueue, total, waited>>
                   ELSE /\ total' = total + 1
                        /\ pq' = [pq EXCEPT ![c] = "connecting"]
                        /\ UNCHANGED <<waitQueue, idle, waited>>

\* acquire(): an idle client, else a new one while total < max, else wait
Admit(c) ==
    /\ IF poolEnding
         THEN /\ pq' = [pq EXCEPT ![c] = "rejected"]
              /\ HealthAfter(c, FALSE, PoolEndedMessage)
              /\ UNCHANGED <<waitQueue, total, idle, waited>>
         ELSE /\ UNCHANGED healthResult
              /\ IF idle > 0
                   THEN /\ idle' = idle - 1
                        /\ pq' = [pq EXCEPT ![c] = "running"]
                        /\ UNCHANGED <<waitQueue, total, waited>>
                   ELSE IF total < PoolMax
                   THEN /\ total' = total + 1
                        /\ pq' = [pq EXCEPT ![c] = "connecting"]
                        /\ UNCHANGED <<waitQueue, idle, waited>>
                   ELSE /\ waitQueue' = Append(waitQueue, c)
                        /\ waited' = waited \cup {c}
                        /\ pq' = [pq EXCEPT ![c] = "waiting"]
                        /\ UNCHANGED <<total, idle>>

\* release(conn, hadError = FALSE) by call c, which settles as st: the client
\* goes to the oldest waiting call, else to idle; a pool that is ending
\* closes it
Release(c, st) ==
    IF poolEnding
    THEN /\ total' = total - 1
         /\ pq' = [pq EXCEPT ![c] = st]
         /\ UNCHANGED <<waitQueue, idle>>
    ELSE IF waitQueue # <<>>
    THEN /\ pq' = [pq EXCEPT ![c] = st, ![Head(waitQueue)] = "running"]
         /\ waitQueue' = Tail(waitQueue)
         /\ UNCHANGED <<total, idle>>
    ELSE /\ idle' = idle + 1
         /\ pq' = [pq EXCEPT ![c] = st]
         /\ UNCHANGED <<waitQueue, total>>

\* release(conn, hadError = TRUE), or a client that failed to connect: the
\* client is discarded, and the oldest waiting call has a new one opened
Discard(c, st) ==
    IF poolEnding \/ waitQueue = <<>>
    THEN /\ total' = total - 1
         /\ pq' = [pq EXCEPT ![c] = st]
         /\ UNCHANGED <<waitQueue, idle>>
    ELSE /\ pq' = [pq EXCEPT ![c] = st, ![Head(waitQueue)] = "connecting"]
         /\ waitQueue' = Tail(waitQueue)
         /\ UNCHANGED <<total, idle>>

opsRest == <<poolEnding, endCalls, monitorOn, ticks, tickAfterEnd, shut>>

\* pool.query(...) is called: by healthCheck, or by an attempt of query
PoolQueryCall(c) ==
    /\ pq[c] = "idle"
    /\ Admit(c)
    /\ UNCHANGED opsRest

PoolConnectOk(c) ==
    /\ pq[c] = "connecting"
    /\ pq' = [pq EXCEPT ![c] = "running"]
    /\ UNCHANGED <<waitQueue, total, idle, healthResult, waited>>
    /\ UNCHANGED opsRest

PoolConnectFail(c) ==
    /\ pq[c] = "connecting"
    /\ Discard(c, "rejected")
    /\ \E m \in ConnectErrorMessages : HealthAfter(c, FALSE, m)
    /\ UNCHANGED waited
    /\ UNCHANGED opsRest

\* no client came within connectionTimeoutMillis
PoolWaitTimeout(c) ==
    /\ pq[c] = "waiting"
    /\ pq' = [pq EXCEPT ![c] = "rejected"]
    /\ waitQueue' = Without(waitQueue, c)
    /\ HealthAfter(c, FALSE, ConnectTimeoutMessage)
    /\ UNCHANGED <<total, idle, waited>>
    /\ UNCHANGED opsRest

PoolQueryOk(c) ==
    /\ pq[c] = "running"
    /\ Release(c, "resolved")
    /\ HealthAfter(c, TRUE, "absent")
    /\ UNCHANGED waited
    /\ UNCHANGED opsRest

PoolQueryErr(c) ==
    /\ pq[c] = "running"
    /\ Discard(c, "rejected")
    /\ \E m \in QueryErrorMessages : HealthAfter(c, FALSE, m)
    /\ UNCHANGED waited
    /\ UNCHANGED opsRest

\* stats.metrics.successRate of the monitor, in hundredths of a percent
\* (toFixed(2)), rounded to the nearest
SuccessRate(t, f) ==
    IF t > 0 THEN ((t - f) * 20000 + t) \div (2 * t) ELSE 10000

\* the callback of setInterval(..., 60000): it reads the pool's counts and the
\* metrics and logs them
MonitorTick ==
    /\ monitorOn
    /\ ticks < MaxTicks
    /\ ticks' = ticks + 1
    /\ tickAfterEnd' = (tickAfterEnd \/ endCalls > 0)
    /\ UNCHANGED <<pq, waitQueue, total, idle, poolEnding, endCalls, monitorOn, shut,
                   healthResult, waited>>
    /\ UNCHANGED metricsVars

\* A gracefulShutdown that leaves the interval armed.
GracefulShutdownKeepsMonitor(g) ==
    /\ shut[g] = "none"
    /\ endCalls' = endCalls + 1
    /\ IF poolEnding
         THEN /\ shut' = [shut EXCEPT ![g] = "endRejected"]
              /\ UNCHANGED <<poolEnding, total, idle>>
         ELSE /\ poolEnding' = TRUE
              /\ total' = total - idle
              /\ idle' = 0
              /\ shut' = [shut EXCEPT ![g] = "awaitEnd"]
    /\ UNCHANGED <<pq, waitQueue, monitorOn, ticks, tickAfterEnd, healthResult, waited>>

\* gracefulShutdown up to its await: clearInterval(poolMonitor), then
\* pool.end(), which closes the idle clients, or rejects when called before
GracefulShutdown(g) ==
    /\ shut[g] = "none"
    /\ monitorOn' = FALSE
    /\ endCalls' = endCalls + 1
    /\ IF poolEnding
         THEN /\ shut' = [shut EXCEPT ![g] = "endRejected"]
              /\ UNCHANGED <<poolEnding, total, idle>>
         ELSE /\ poolEnding' = TRUE
              /\ total' = total - idle
              /\ idle' = 0
              /\ shut' = [shut EXCEPT ![g] = "awaitEnd"]
    /\ UNCHANGED <<pq, waitQueue, ticks, tickAfterEnd, healthResult, waited>>

\* await pool.end() settles: it resolves once every client is closed, and the
\* catch block logs a rejection
ShutdownEndSettles(g) ==
    /\ \/ /\ shut[g] = "awaitEnd"
          /\ total = 0
          /\ shut' = [shut EXCEPT ![g] = "closed"]
       \/ /\ shut[g] = "endRejected"
          /\ shut' = [shut EXCEPT ![g] = "endError"]
    /\ UNCHANGED <<pq, waitQueue, total, idle, poolEnding, endCalls, monitorOn, ticks,
                   tickAfterEnd, healthResult, waited>>

\* what pool.on('error') can be called with
PoolErrorMessages == {"Connection terminated unexpectedly"}

EventInit ==
    /\ mLastError = "null"
    /\ mLastErrorTime = 0
    /\ poolErrors = 0

\* pool.on('error', ...): an idle client failed
PoolErrorEvent ==
    /\ poolErrors < MaxPoolErrors
    /\ poolErrors' = poolErrors + 1
    /\ \E m \in PoolErrorMessages : mLastError' = m
    /\ mLastErrorTime' = poolErrors + 1

(***************************************************************************)
(* transaction(callback) of the simple pool module                         *)
(***************************************************************************)
MaxSimpleCalls == 1

SimpleInit == simpleTxns = <<>>

\* transaction() is called: await pool.connect()
SimpleCall ==
    /\ Len(simpleTxns) < MaxSimpleCalls
    /\ simpleTxns' = Append(simpleTxns,
          [pc |-> "connect", timer |-> "unset", client |-> "none", queue |-> <<>>,
           body |-> "notstarted", stmts |-> 0, err |-> "none", outcome |-> "none",
           log |-> <<>>])

\* pool.connect() rejects
SimpleConnectFail(t) ==
    /\ simpleTxns[t].pc = "connect"
    /\ simpleTxns' = [simpleTxns EXCEPT ![t].pc = "rejected",
                                        ![t].outcome = "connectError"]

\* pool.connect() resolves: the timer is armed and BEGIN is issued
SimpleConnectOk(t) ==
    /\ simpleTxns[t].pc = "connect"
    /\ simpleTxns' = [simpleTxns EXCEPT ![t].client = "inuse",
                                        ![t].timer = "armed",
                                        ![t].queue = <<Ev("main", "BEGIN")>>,
                                        ![t].log = <<Ev("main", "BEGIN")>>,
                                        ![t].pc = "begin"]

\* the 30 s timer fires: client.release(), whatever the call has done since
SimpleTimerFire(t) ==
    /\ simpleTxns[t].timer = "armed"
    /\ simpleTxns' = [simpleTxns EXCEPT
          ![t].timer = IF ReleaseThrows(simpleTxns[t].client) THEN "threw" ELSE "fired",
          ![t].client = ClientAfterRelease(@, FALSE),
          ![t].log = Append(@, ReleaseEv("timer", FALSE))]

\* the finally block: client.release(); when it throws, its error is what
\* the call rejects with
SimpleFinally(x, pc, result) ==
    [x EXCEPT !.client = ClientAfterRelease(@, FALSE),
              !.log = Append(@, ReleaseEv("main", FALSE)),
              !.pc = IF ReleaseThrows(x.client) THEN "rejected" ELSE pc,
              !.outcome = IF ReleaseThrows(x.client) THEN "releaseError" ELSE result]

\* the catch block up to its await: client.query('ROLLBACK')
SimpleCatch(x, error) ==
    [x EXCEPT !.queue = Append(@, Ev("main", "ROLLBACK")),
              !.log = Append(@, Ev("main", "ROLLBACK")),
              !.err = error,
              !.pc = "rollback"]

\* the call t is awaiting the statement op, which is the next to complete
SimpleAwaits(t, pc, who, op) ==
    /\ simpleTxns[t].pc = pc
    /\ simpleTxns[t].queue # <<>>
    /\ Head(simpleTxns[t].queue) = Ev(who, op)

\* await client.query('BEGIN') settles
SimpleBeginDone(t) ==
    /\ SimpleAwaits(t, "begin", "main", "BEGIN")
    /\ \E ok \in StmtResults(simpleTxns[t].client) :
         simpleTxns' = [simpleTxns EXCEPT ![t] =
           IF ok THEN [@ EXCEPT !.pc = "body", !.body = "running", !.queue = Tail(@)]
                 ELSE SimpleCatch([@ EXCEPT !.queue = Tail(@)], "beginError")]

\* the callback issues a statement on the client and awaits it
SimpleBodyIssue(t) ==
    /\ simpleTxns[t].pc = "body" /\ simpleTxns[t].body = "running"
    /\ simpleTxns[t].stmts < MaxBodyStmts
    /\ simpleTxns' = [simpleTxns EXCEPT ![t].body = "stmt",
                                        ![t].stmts = @ + 1,
                                        ![t].queue = Append(@, Ev("body", "STMT")),
                                        ![t].log = Append(@, Ev("body", "STMT"))]

\* the callback's statement settles; a failure makes the callback throw
SimpleBodyStmtDone(t) ==
    /\ simpleTxns[t].body = "stmt"
    /\ SimpleAwaits(t, "body", "body", "STMT")
    /\ \E ok \in StmtResults(simpleTxns[t].client) :
         simpleTxns' = [simpleTxns EXCEPT ![t] =
           IF ok THEN [@ EXCEPT !.body = "running", !.queue = Tail(@)]
                 ELSE SimpleCatch([@ EXCEPT !.body = "threw", !.queue = Tail(@)],
                                  "bodyError")]

\* the callback throws for a reason of its own
SimpleBodyThrow(t) ==
    /\ simpleTxns[t].pc = "body" /\ simpleTxns[t].body = "running"
    /\ simpleTxns' = [simpleTxns EXCEPT ![t] =
          SimpleCatch([@ EXCEPT !.body = "threw"], "bodyError")]

\* the callback returns: await client.query('COMMIT')
SimpleBodyReturn(t) ==
    /\ simpleTxns[t].pc = "body" /\ simpleTxns[t].body = "running"
    /\ simpleTxns' = [simpleTxns EXCEPT ![t].body = "returned",
                                        ![t].pc = "commit",
                                        ![t].queue = Append(@, Ev("main", "COMMIT")),
                                        ![t].log = Append(@, Ev("main", "COMMIT"))]

\* await client.query('COMMIT') settles: clearTimeout, return result, finally
SimpleCommitDone(t) ==
    /\ SimpleAwaits(t, "commit", "main", "COMMIT")
    /\ \E ok \in StmtResults(simpleTxns[t].client) :
         simpleTxns' = [simpleTxns EXCEPT ![t] =
           IF ok THEN SimpleFinally([@ EXCEPT !.timer = ClearTimeout(@),
                                              !.queue = Tail(@)], "resolved", "result")
                 ELSE SimpleCatch([@ EXCEPT !.queue = Tail(@)], "commitError")]

\* the catch block's await client.query('ROLLBACK') settles: when it
\* resolves, clearTimeout and throw error; when it rejects, its error leaves
\* the catch block at once and the timer stays armed; then finally
SimpleRollbackDone(t) ==
    /\ SimpleAwaits(t, "rollback", "main", "ROLLBACK")
    /\ \E ok \in StmtResults(simpleTxns[t].client) :
         simpleTxns' = [simpleTxns EXCEPT ![t] =
           IF ok THEN SimpleFinally([@ EXCEPT !.timer = ClearTimeout(@),
                                              !.queue = Tail(@)], "rejected", @.err)
                 ELSE SimpleFinally([@ EXCEPT !.queue = Tail(@)], "rejected",
                                    "rollbackError")]

\* the pool hands the idle client to another operation
SimplePoolHandOut(t) ==
    /\ simpleTxns[t].client = "idle"
    /\ simpleTxns' = [simpleTxns EXCEPT ![t].client = "other",
                                        ![t].log = Append(@, Ev("pool", "handout"))]

(***************************************************************************)
(* routes/auth.js: the OTP store, POST /send-otp and POST /verify-otp      *)
(***************************************************************************)
MaxVerifiers == 2
MaxSends == 2
MaxClockSteps == 2

\* what generateOTP() can return and what a request can carry
Otps == {"111111", "222222"}
OtpTtlMs == 5 * 60 * 1000
ClockSteps == {1, OtpTtlMs}
NoOtp == [otp |-> "", gen |-> 0, expiresAt |-> 0]

OtpInit ==
    /\ otpStore = NoOtp
    /\ otpNow = 0
    /\ clockSteps = 0
    /\ sendPc = "idle"
    /\ sends = 0
    /\ registered = FALSE
    /\ verifyReqs = <<>>

\* time passes
ClockAdvance ==
    /\ clockSteps < MaxClockSteps
    /\ \E d \in ClockSteps : otpNow' = otpNow + d
    /\ clockSteps' = clockSteps + 1
    /\ UNCHANGED <<otpStore, sendPc, sends, registered, verifyReqs>>

\* POST /send-otp up to its last await: the phone must not have a users row
\* (400 otherwise)
SendOtpCheck ==
    /\ sendPc = "idle"
    /\ sends < MaxSends
    /\ sendPc' = IF registered THEN "idle" ELSE "checked"
    /\ UNCHANGED <<otpStore, otpNow, clockSteps, sends, registered, verifyReqs>>

\* POST /send-otp after its last await: generate the OTP and store it
SendOtpStore ==
    /\ sendPc = "checked"
    /\ \E otp \in Otps :
         otpStore' = [otp |-> otp, gen |-> sends + 1, expiresAt |-> otpNow + OtpTtlMs]
    /\ sends' = sends + 1
    /\ sendPc' = "idle"
    /\ UNCHANGED <<otpNow, clockSteps, registered, verifyReqs>>

\* the verdict of the checks of POST /verify-otp on the entry found
OtpVerdict(storedData, otp, now) ==
    IF storedData = NoOtp THEN "missing"
    ELSE IF storedData.otp # otp THEN "wrong"
    ELSE IF now > storedData.expiresAt THEN "expired"
    ELSE "accepted"

\* POST /verify-otp up to its first await, for a new request: the OTP
\* checks; an accepted request goes on to bcrypt.hash, the others are
\* answered 400
VerifyOtpCheck(otp) ==
    /\ Len(verifyReqs) < MaxVerifiers
    /\ LET verdict == OtpVerdict(otpStore, otp, otpNow)
       IN /\ otpStore' = IF verdict = "expired" THEN NoOtp ELSE otpStore
          /\ verifyReqs' = Append(verifyReqs,
                 [pc |-> IF verdict = "accepted" THEN "hash" ELSE "done",
                  status |-> IF verdict = "accepted" THEN 0 ELSE 400,
                  found |-> otpStore,
                  left |-> otpStore',
                  verdict |-> verdict])
    /\ UNCHANGED <<otpNow, clockSteps, sendPc, sends, registered>>

\* await bcrypt.hash(password, 10) settles: the registration transaction starts
VerifyOtpHashDone(v) ==
    /\ verifyReqs[v].pc = "hash"
    /\ verifyReqs' = [verifyReqs EXCEPT ![v].pc = "txn"]
    /\ UNCHANGED <<otpStore, otpNow, clockSteps, sendPc, sends, registered>>

\* await transaction(...) settles: on success the OTP is cleared and the
\* request answered 201, on failure the catch block answers 500
VerifyOtpTxnDone(v) ==
    /\ verifyReqs[v].pc = "txn"
    /\ \E ok \in BOOLEAN :
         /\ otpStore' = IF ok THEN NoOtp ELSE otpStore
         /\ registered' = (registered \/ ok)
         /\ verifyReqs' = [verifyReqs EXCEPT ![v].pc = "done",
                                             ![v].status = IF ok THEN 201 ELSE 500]
    /\ UNCHANGED <<otpNow, clockSteps, sendPc, sends>>

(***************************************************************************)
(* middleware/auth.js: verifyToken                                         *)
(***************************************************************************)
MaxRequests == 2

\* the Authorization header: absent or not 'Bearer ...', or a bearer token
\* that jwt.verify accepts, rejects (JsonWebTokenError) or finds expired
\* (TokenExpiredError) or not yet valid (NotBeforeError)
Headers == {"none", "valid", "invalid", "expired", "notBefore"}
\* how the user lookup settles: it rejects, or resolves with no row, with
\* an inactive user or with an active user
Lookups == {"error", "norow", "inactive", "active"}

AuthInit == authReqs = <<>>

\* the status the catch block answers for an error thrown before the race
TokenErrorStatus(header) ==
    IF header \in {"invalid", "expired"} THEN 401 ELSE 500

\* verifyToken up to its await, for a new request: header check,
\* jwt.verify, then the timer is armed and the lookup started
VerifyTokenCall(header) ==
    /\ Len(authReqs) < MaxRequests
    /\ authReqs' = Append(authReqs,
          IF header = "valid"
            THEN [pc |-> "race", timer |-> "armed", query |-> "pending", token |-> header,
                  lookup |-> "none", winner |-> "none", nextCalls |-> 0,
                  responses |-> <<>>, reqUser |-> FALSE]
            ELSE [pc |-> "done", timer |-> "unset", query |-> "none", token |-> header,
                  lookup |-> "none", winner |-> "none", nextCalls |-> 0,
                  responses |-> <<IF header = "none" THEN 401 ELSE TokenErrorStatus(header)>>,
                  reqUser |-> FALSE])

\* the 5 s timer fires and rejects timeoutPromise; if the race is still
\* open the await throws and the catch block answers 500
AuthTimerFire(r) ==
    /\ authReqs[r].timer = "armed"
    /\ authReqs' = [authReqs EXCEPT ![r] =
          IF @.pc = "race"
            THEN [@ EXCEPT !.timer = "fired", !.pc = "done", !.winner = "timer",
                           !.responses = Append(@, 500)]
            ELSE [@ EXCEPT !.timer = "fired"]]

\* what verifyToken does with the outcome of the lookup
AuthAfterLookup(req, res) ==
    IF res = "active"
      THEN [req EXCEPT !.pc = "done", !.winner = "query", !.reqUser = TRUE,
                       !.nextCalls = @ + 1]
      ELSE [req EXCEPT !.pc = "done", !.winner = "query",
                       !.responses = Append(@, IF res = "error" THEN 500 ELSE 401)]

\* as if the lookup were awaited on its own, next to the timer
AuthQuerySettleNoRace(r, res) ==
    /\ authReqs[r].query = "pending"
    /\ authReqs' = [authReqs EXCEPT ![r] =
          AuthAfterLookup([@ EXCEPT !.query = "settled", !.lookup = res], res)]

\* queryPromise settles; if the race is still open the function goes on
\* with its outcome, otherwise the outcome is dropped
AuthQuerySettle(r, res) ==
    /\ authReqs[r].query = "pending"
    /\ authReqs' = [authReqs EXCEPT ![r] =
          IF @.pc = "race"
            THEN AuthAfterLookup([@ EXCEPT !.query = "settled", !.lookup = res], res)
            ELSE [@ EXCEPT !.query = "settled", !.lookup = res]]

Init ==
    /\ TxnInit /\ SafeInit /\ QueryInit /\ OpsInit /\ EventInit /\ SimpleInit /\ OtpInit
    /\ AuthInit

notTxn == <<safeVars, queryVars, opsVars, eventVars, simpleVars, otpVars, authVars>>
notSafe == <<txnVars, queryVars, opsVars, eventVars, simpleVars, otpVars, authVars>>
notQuery == <<txnVars, safeVars, opsVars, eventVars, simpleVars, otpVars, authVars>>
notOps == <<txnVars, safeVars, queryVars, eventVars, simpleVars, otpVars, authVars>>
\* what healthCheck and the monitor cannot reach: all but the pool and connectionMetrics
notOpsNorMetrics == <<txnVars, safeVars, queryRest, poolErrors, simpleVars, otpVars,
                      authVars>>
notSimple == <<txnVars, safeVars, queryVars, opsVars, eventVars, otpVars, authVars>>
notOtp == <<txnVars, safeVars, queryVars, opsVars, eventVars, simpleVars, authVars>>
notAuth == <<txnVars, safeVars, queryVars, opsVars, eventVars, simpleVars, otpVars>>

SimpleNext ==
    \/ SimpleCall /\ UNCHANGED notSimple
    \/ \E t \in DOMAIN simpleTxns : SimpleConnectFail(t) /\ UNCHANGED notSimple
    \/ \E t \in DOMAIN simpleTxns : SimpleConnectOk(t) /\ UNCHANGED notSimple
    \/ \E t \in DOMAIN simpleTxns : SimpleTimerFire(t) /\ UNCHANGED notSimple
    \/ \E t \in DOMAIN simpleTxns : SimpleBeginDone(t) /\ UNCHANGED notSimple
    \/ \E t \in DOMAIN simpleTxns : SimpleBodyIssue(t) /\ UNCHANGED notSimple
    \/ \E t \in DOMAIN simpleTxns : SimpleBodyStmtDone(t) /\ UNCHANGED notSimple
    \/ \E t \in DOMAIN simpleTxns : SimpleBodyThrow(t) /\ UNCHANGED notSimple
    \/ \E t \in DOMAIN simpleTxns : SimpleBodyReturn(t) /\ UNCHANGED notSimple
    \/ \E t \in DOMAIN simpleTxns : SimpleCommitDone(t) /\ UNCHANGED notSimple
    \/ \E t \in DOMAIN simpleTxns : SimpleRollbackDone(t) /\ UNCHANGED notSimple
    \/ \E t \in DOMAIN simpleTxns : SimplePoolHandOut(t) /\ UNCHANGED notSimple

SimpleSpec == Init /\ [][SimpleNext]_vars

OtpNext ==
    \/ ClockAdvance /\ UNCHANGED notOtp
    \/ SendOtpCheck /\ UNCHANGED notOtp
    \/ SendOtpStore /\ UNCHANGED notOtp
    \/ \E otp \in Otps : VerifyOtpCheck(otp) /\ UNCHANGED notOtp
    \/ \E v \in DOMAIN verifyReqs : VerifyOtpHashDone(v) /\ UNCHANGED notOtp
    \/ \E v \in DOMAIN verifyReqs : VerifyOtpTxnDone(v) /\ UNCHANGED notOtp

OtpSpec == Init /\ [][OtpNext]_vars

AuthNext ==
    \/ \E header \in Headers : VerifyTokenCall(header) /\ UNCHANGED notAuth
    \/ \E r \in DOMAIN authReqs : AuthTimerFire(r) /\ UNCHANGED notAuth
    \/ \E r \in DOMAIN authReqs, res \in Lookups : AuthQuerySettle(r, res) /\ UNCHANGED notAuth

AuthSpec == Init /\ [][AuthNext]_vars

OpsNext ==
    \/ (\E c \in Users : PoolQueryCall(c)) /\ UNCHANGED notOps
    \/ (\E c \in Users : PoolConnectOk(c)) /\ UNCHANGED notOps
    \/ (\E c \in Users : PoolConnectFail(c)) /\ UNCHANGED notOps
    \/ (\E c \in Users : PoolWaitTimeout(c)) /\ UNCHANGED notOps
    \/ (\E c \in Users : PoolQueryOk(c)) /\ UNCHANGED notOps
    \/ (\E c \in Users : PoolQueryErr(c)) /\ UNCHANGED notOps
    \/ MonitorTick /\ UNCHANGED notOps
    \/ (\E g \in Signals : GracefulShutdown(g)) /\ UNCHANGED notOps
    \/ (\E g \in Signals : ShutdownEndSettles(g)) /\ UNCHANGED notOps

OpsSpec == Init /\ [][OpsNext]_vars

\* calls of query whose attempts succeed or lose the race against the
\* timeout, and the late responses to the attempts that lost it
LateNext ==
    \/ QueryCall /\ UNCHANGED notQuery
    \/ QuerySucceed /\ UNCHANGED notQuery
    \/ QueryTimeout /\ UNCHANGED notQuery
    \/ QueryBackoffDone /\ UNCHANGED notQuery
    \/ QueryLateSettle /\ UNCHANGED notQuery

LateSpec == Init /\ [][LateNext]_vars

\* calls of query, one healthCheck, the monitor and the pool's 'error' events
MetricsNext ==
    \/ QueryCall /\ UNCHANGED notQuery
    \/ QuerySucceed /\ UNCHANGED notQuery
    \/ QueryFail /\ UNCHANGED notQuery
    \/ QueryBackoffDone /\ UNCHANGED notQuery
    \/ PoolQueryCall(HealthUser) /\ UNCHANGED notOps
    \/ PoolConnectOk(HealthUser) /\ UNCHANGED notOps
    \/ PoolConnectFail(HealthUser) /\ UNCHANGED notOpsNorMetrics
    \/ PoolQueryOk(HealthUser) /\ UNCHANGED notOpsNorMetrics
    \/ PoolQueryErr(HealthUser) /\ UNCHANGED notOpsNorMetrics
    \/ MonitorTick /\ UNCHANGED notOpsNorMetrics
    \/ PoolErrorEvent /\ UNCHANGED <<txnVars, safeVars, queryVars, opsVars, simpleVars, otpVars,
                                     authVars>>

MetricsSpec == Init /\ [][MetricsNext]_vars

QueryNext ==
    \/ QueryCall /\ UNCHANGED notQuery
    \/ QuerySucceed /\ UNCHANGED notQuery
    \/ QueryFail /\ UNCHANGED notQuery
    \/ QueryPoolTimeout /\ UNCHANGED notQuery
    \/ QueryTimeout /\ UNCHANGED notQuery
    \/ QueryBackoffDone /\ UNCHANGED notQuery
    \/ QueryLateSettle /\ UNCHANGED notQuery

QuerySpec == Init /\ [][QueryNext]_vars

\* transaction and safeClientQuery calls run concurrently, each on its own client
ClientNext ==
    \/ TxnCall /\ UNCHANGED notTxn
    \/ TxnConnectFail /\ UNCHANGED notTxn
    \/ TxnConnectOk /\ UNCHANGED notTxn
    \/ TxnBeginDone /\ UNCHANGED notTxn
    \/ BodyIssue /\ UNCHANGED notTxn
    \/ BodyStmtDone /\ UNCHANGED notTxn
    \/ BodyThrow /\ UNCHANGED notTxn
    \/ BodyReturn /\ UNCHANGED notTxn
    \/ TxnCommitDone /\ UNCHANGED notTxn
    \/ TxnRollbackDone /\ UNCHANGED notTxn
    \/ TxnTimerFire /\ UNCHANGED notTxn
    \/ TxnTimerRollbackDone /\ UNCHANGED notTxn
    \/ PoolHandOut /\ UNCHANGED notTxn
    \/ SafeCall /\ UNCHANGED notSafe
    \/ SafeConnectFail /\ UNCHANGED notSafe
    \/ SafeConnectOk /\ UNCHANGED notSafe
    \/ SafeBodyIssue /\ UNCHANGED notSafe
    \/ SafeBodyStmtDone /\ UNCHANGED notSafe
    \/ SafeBodyThrow /\ UNCHANGED notSafe
    \/ SafeBodyReturn /\ UNCHANGED notSafe
    \/ SafeTimerFire /\ UNCHANGED notSafe
    \/ SafePoolHandOut /\ UNCHANGED notSafe

ClientSpec == Init /\ [][ClientNext]_vars

\* Timers fire and every statement issued on a connection completes; nothing
\* makes a callback settle.
ClientFairness ==
    /\ WF_vars(TxnCall /\ UNCHANGED notTxn)
    /\ WF_vars((TxnConnectOk \/ TxnConnectFail) /\ UNCHANGED notTxn)
    /\ WF_vars(TxnBeginDone /\ UNCHANGED notTxn)
    /\ WF_vars(BodyStmtDone /\ UNCHANGED notTxn)
    /\ WF_vars(TxnCommitDone /\ UNCHANGED notTxn)
    /\ WF_vars(TxnRollbackDone /\ UNCHANGED notTxn)
    /\ WF_vars(TxnTimerFire /\ UNCHANGED notTxn)
    /\ WF_vars(TxnTimerRollbackDone /\ UNCHANGED notTxn)
    /\ WF_vars(SafeBodyStmtDone /\ UNCHANGED notSafe)
    /\ WF_vars(SafeTimerFire /\ UNCHANGED notSafe)

FairClientSpec == ClientSpec /\ ClientFairness

(***************************************************************************)
(* Reading the histories                                                   *)
(***************************************************************************)
ReleaseOps == {"release", "releaseErr"}

\* positions of the events of l whose op is in ops
Positions(l, ops) == {i \in 1..Len(l) : l[i].op \in ops}
Releases(l) == Cardinality(Positions(l, ReleaseOps))
Min(S) == CHOOSE x \in S : \A y \in S : x <= y
FirstRelease(l) == Min(Positions(l, ReleaseOps))

TxnSettled == tpc \in {"resolved", "rejected"}
SafeSettled == spc \in {"resolved", "rejected"}
TxnAcquired == client # "none"
SafeAcquired == sclient # "none"

\* the timer callback has run to its end
TimerCallbackOver == tmpc \in {"done", "threw"}

(***************************************************************************)
(* C1: client.release is called exactly once per acquired client in every  *)
(* interleaving of the body, the timer callback and the completion path:   *)
(* never twice, and once by the time the call has settled.                 *)
(***************************************************************************)
C1_ReleaseExactlyOnce ==
    /\ Releases(log) <= 1
    /\ (TxnSettled /\ TxnAcquired) => Releases(log) = 1

(***************************************************************************)
(* C2: when the body throws, the connection is released exactly once and   *)
(* that release is preceded by a ROLLBACK issued on the connection.        *)
(***************************************************************************)
C2_ThrowRollsBackReleasesOnce ==
    body = "threw" =>
        /\ Releases(log) <= 1
        /\ TxnSettled =>
              /\ Releases(log) = 1
              /\ \E i \in Positions(log, {"ROLLBACK"}) : i < FirstRelease(log)

(***************************************************************************)
(* C3: when the body completes normally, exactly one COMMIT is issued,     *)
(* exactly one release occurs and the timer callback never runs (issues    *)
(* nothing, releases nothing) once COMMIT has been issued.                 *)
(***************************************************************************)
C3_CommitOnceTimerCancelled ==
    body = "returned" =>
        /\ Cardinality(Positions(log, {"COMMIT"})) = 1
        /\ Releases(log) <= 1
        /\ TxnSettled => Releases(log) = 1
        /\ \A i \in Positions(log, {"COMMIT"}) :
              \A j \in 1..Len(log) : j > i => log[j].who # "timer"

(***************************************************************************)
(* C4: when the timeout fires, transaction() rolls back, releases and then *)
(* fails the call with a transaction-timeout error without waiting for the *)
(* body: once the timer callback is over the call has been rejected with   *)
(* that error.                                                             *)
(***************************************************************************)
C4_TimeoutFailsCall ==
    (firedAt = "body" /\ TimerCallbackOver) =>
        (tpc = "rejected" /\ outcome = "timeoutError")

\* the COMMIT / ROLLBACK statements issued before the first release, in order
EndsBeforeRelease(l) ==
    LET before == SubSeq(l, 1, FirstRelease(l) - 1)
        IsEnd(e) == e.op \in EndOps
        ends == SelectSeq(before, IsEnd)
    IN  [i \in 1..Len(ends) |-> ends[i].op]

(***************************************************************************)
(* C5 as stated: exactly one of COMMIT or ROLLBACK is issued on the        *)
(* connection before it is released, never both and never neither; read    *)
(* here on the runs in which the timer never fires, where no race between  *)
(* the timer callback and the main path is involved.                       *)
(***************************************************************************)
C5_ExactlyOneEnd ==
    (firedAt = "none" /\ Releases(log) >= 1) => Len(EndsBeforeRelease(log)) = 1

(***************************************************************************)
(* C5 amended: at least one of COMMIT or ROLLBACK is issued before the     *)
(* first release.  While the timer has not fired exactly one is issued,    *)
(* unless COMMIT failed: then the catch block's ROLLBACK follows it.  The  *)
(* timer callback's ROLLBACK can come on top of those.                     *)
(***************************************************************************)
C5_AtLeastOneEnd ==
    Releases(log) >= 1 =>
        LET ends == EndsBeforeRelease(log)
        IN  /\ ends # <<>>
            /\ firedAt = "none" =>
                  /\ ends \in {<<"COMMIT">>, <<"ROLLBACK">>, <<"COMMIT", "ROLLBACK">>}
                  /\ ends = <<"COMMIT", "ROLLBACK">> => txErr = "commitError"

\* a failed COMMIT was followed by ROLLBACK and the release
C5_Witness ==
    /\ firedAt = "none"
    /\ Releases(log) = 1
    /\ EndsBeforeRelease(log) = <<"COMMIT", "ROLLBACK">>

(***************************************************************************)
(* C6: a connection is owned by at most one in-flight operation: once the  *)
(* pool has handed a released client to another operation, the call that   *)
(* released it has no statement in flight on it and neither issues a       *)
(* statement on it nor releases it.                                        *)
(***************************************************************************)
SoleOwner(l, q) ==
    \A i \in Positions(l, {"handout"}) : i = Len(l) /\ q = <<>>

C6_SoleOwner == SoleOwner(log, clientQueue) /\ SoleOwner(slog, safeQueue)

(***************************************************************************)
(* C7: every client acquired by transaction or safeClientQuery is          *)
(* eventually released: it has been released when the call settles, and    *)
(* when the callback never settles the timer releases it (timers fire,     *)
(* statements issued on the connection complete).                          *)
(***************************************************************************)
C7_EventuallyReleased ==
    /\ []((TxnSettled /\ TxnAcquired) => Releases(log) >= 1)
    /\ []((SafeSettled /\ SafeAcquired) => Releases(slog) >= 1)
    /\ (TxnAcquired ~> Releases(log) >= 1)
    /\ (SafeAcquired ~> Releases(slog) >= 1)

\* the callback never settled and the timer callback released the client
C7_Witness ==
    /\ tpc = "body" /\ body \in {"running", "stmt"}
    /\ tmpc = "done"
    /\ Releases(log) = 1
    /\ spc = "body" /\ sbody \in {"running", "stmt"}
    /\ Releases(slog) = 1

(***************************************************************************)
(* C8: an attempt of query that fails with a non-retryable error (23505,   *)
(* 23503, 42P01, 42703, or a message containing 'syntax error') makes the  *)
(* call reject with that same error at once: no attempt and no backoff     *)
(* wait follows it.  A statement failing with 23505 is attempted once.     *)
(***************************************************************************)
NonRetryableCodes == {"23505", "23503", "42P01", "42703"}

C8_NonRetryableFailsAtOnce ==
    (lastError # NoError /\ (lastError.code \in NonRetryableCodes \/ lastError.syntax)) =>
        /\ qpc = "rejected"
        /\ qError = lastError
        /\ attemptsMade = lastError.at + 1
        /\ Len(waits) = lastError.at

\* called with retries = 2, the first attempt failed with 23505
C8_Witness ==
    /\ retries = 2
    /\ qpc = "rejected"
    /\ qError.code = "23505"
    /\ attemptsMade = 1
    /\ waits = <<>>

\* the call rejected after every attempt failed with a retryable error
AllTransientFailed == qpc = "rejected" /\ ~IsNonRetryable(qError)

(***************************************************************************)
(* C9 as stated: when every attempt fails with a transient failure,        *)
(* exactly retries + 1 attempts are made, the wait that follows failed     *)
(* attempt number a (from 0) is 2^a seconds, the waits are strictly        *)
(* increasing and the error surfaced is that of the last attempt.          *)
(***************************************************************************)
C9_WaitTwoToTheFailedAttempt ==
    AllTransientFailed =>
        /\ attemptsMade = retries + 1
        /\ Len(waits) = retries
        /\ \A a \in 0..(Len(waits) - 1) : waits[a + 1] = Pow2(a) * 1000
        /\ \A a \in 1..(Len(waits) - 1) : waits[a] < waits[a + 1]
        /\ qError = lastError /\ qError.at = retries

(***************************************************************************)
(* C9 amended: when every attempt fails with a transient failure, exactly  *)
(* retries + 1 attempts are made, the wait that follows failed attempt     *)
(* number a (from 0) is 2^(a+1) seconds (2^k seconds before attempt k),    *)
(* the waits are strictly increasing and the error surfaced is that of the *)
(* last attempt.                                                           *)
(***************************************************************************)
C9_WaitTwoToTheNextAttempt ==
    AllTransientFailed =>
        /\ attemptsMade = retries + 1
        /\ Len(waits) = retries
        /\ \A a \in 0..(Len(waits) - 1) : waits[a + 1] = Pow2(a + 1) * 1000
        /\ \A a \in 1..(Len(waits) - 1) : waits[a] < waits[a + 1]
        /\ qError = lastError /\ qError.at = retries

\* three attempts failed, the last by timeout, with waits of 2 s and 4 s
C9_Witness ==
    /\ retries = 2
    /\ AllTransientFailed
    /\ attemptsMade = 3
    /\ waits = <<2000, 4000>>
    /\ <<calls, 2>> \in outstanding

(***************************************************************************)
(* C10: within one call of query at most one database round trip is        *)
(* outstanding at any time: no attempt starts while the pool.query of an   *)
(* earlier attempt of the same call is still in flight.                    *)
(***************************************************************************)
C10_OneRoundTripPerCall ==
    \A c \in 1..MaxCalls :
        Cardinality({o \in outstanding : o[1] = c}) <= 1

(***************************************************************************)
(* C11 as stated: when the pool hands out no connection within             *)
(* connectionTimeoutMillis, query surfaces that error after a single       *)
(* attempt: the failure is not retried.                                    *)
(***************************************************************************)
C11_PoolTimeoutNotRetried ==
    lastCause = "poolTimeout" =>
        /\ qpc = "rejected"
        /\ qError = lastError
        /\ Len(waits) = lastError.at

(***************************************************************************)
(* C11 amended: a connect timeout of the pool is retried like every other  *)
(* failure that is not on the non-retryable list: the call rejects with it *)
(* exactly when it failed the last of the retries + 1 attempts, and        *)
(* otherwise a backoff wait and a further attempt follow it.               *)
(***************************************************************************)
C11_PoolTimeoutRetried ==
    lastCause = "poolTimeout" =>
        /\ Len(waits) = IF lastError.at < retries THEN lastError.at + 1 ELSE retries
        /\ qpc = "rejected" =>
              /\ lastError.at = retries
              /\ attemptsMade = retries + 1
              /\ qError = PoolTimeoutError(retries)
        /\ lastError.at < retries => qpc \in {"wait", "race", "resolved"}

\* called with retries = 2: the pool timed out in the first attempt, a wait of
\* 2 s followed, and the call ended after the third attempt timed out too
C11_Witness ==
    /\ retries = 2
    /\ lastCause = "poolTimeout"
    /\ qpc = "rejected"
    /\ attemptsMade = 3
    /\ qStart >= 3 * ConnectionTimeoutMs

(***************************************************************************)
(* C12: connectionMetrics.failedQueries is the number of failed attempts   *)
(* (each failed attempt counts once, retried or not) and                   *)
(* connectionMetrics.totalQueries is the number of calls that returned a   *)
(* result; a successful attempt adds exactly one to totalQueries and       *)
(* nothing to failedQueries.                                               *)
(***************************************************************************)
C12_CountersCountAttemptsAndCalls ==
    /\ failedQueries = nFailed
    /\ totalQueries = nSucceeded
    /\ qpc = "resolved" => totalQueries >= 1

\* a call succeeded in its third attempt: two failures and one success counted
C12_Witness ==
    /\ qpc = "resolved"
    /\ attemptsMade = 3
    /\ failedQueries = 2
    /\ totalQueries = 1

(***************************************************************************)
(* C13 as stated: avgQueryTime is updated exactly once for every completed *)
(* attempt, the failed ones included, so that it is the mean over all      *)
(* completed attempts.                                                     *)
(***************************************************************************)
C13_AvgOverAllAttempts ==
    avgUpdates = nSucceeded + nFailed

(***************************************************************************)
(* C13 amended: avgQueryTime is updated exactly once for every call that   *)
(* returns a result and never by a failed attempt: it is the mean, over    *)
(* the calls that returned a result, of the time from the start of the     *)
(* call to its result.                                                     *)
(***************************************************************************)
C13_AvgOverSuccessfulCalls ==
    /\ avgUpdates = nSucceeded
    /\ avgUpdates = totalQueries
    /\ avgTimesTotal = sumSuccess

\* one attempt failed, the next returned a result: one update for two attempts
C13_Witness ==
    /\ qpc = "resolved"
    /\ nFailed >= 1
    /\ nSucceeded = 1
    /\ avgUpdates = 1
    /\ avgTimesTotal > Backoff(1)

\* the calls that hold a client of the pool, open or being opened
Holders == {c \in Users : pq[c] \in {"connecting", "running"}}
HealthSettled == pq[HealthUser] \in {"resolved", "rejected"}

(***************************************************************************)
(* C14: healthCheck() never throws or rejects: when its liveness query     *)
(* succeeds it resolves to an object with status 'healthy', and when the   *)
(* query fails it resolves to an object with status 'unhealthy' and a      *)
(* non-empty error field.                                                  *)
(***************************************************************************)
C14_HealthNeverThrows ==
    /\ HealthSettled <=> healthResult # NoResult
    /\ pq[HealthUser] = "resolved" => healthResult.status = "healthy"
    /\ pq[HealthUser] = "rejected" =>
          /\ healthResult.status = "unhealthy"
          /\ healthResult.error \notin {"", "absent"}

(***************************************************************************)
(* C15: gracefulShutdown is idempotent: a second call, after or            *)
(* overlapping the first, is a no-op: it does not call pool.end() again    *)
(* and it does not throw.                                                  *)
(***************************************************************************)
C15_SecondShutdownIsNoOp ==
    /\ endCalls <= 1
    /\ \A g \in Signals : shut[g] # "endError"

(***************************************************************************)
(* C16: gracefulShutdown stops the pool monitor before it starts closing   *)
(* the pool: no monitor tick runs after pool.end() has been called, and    *)
(* the interval is no longer armed once pool.end() has been called.        *)
(***************************************************************************)
C16_NoTickAfterEnd ==
    /\ ~tickAfterEnd
    /\ endCalls > 0 => ~monitorOn

\* the monitor ticked, with ticks to spare, and a shutdown closed the pool
C16_Witness ==
    /\ ticks >= 1
    /\ ticks < MaxTicks
    /\ \E g \in Signals : shut[g] = "closed"

(***************************************************************************)
(* C17: the number of open connections never exceeds the pool's capacity   *)
(* max; with more concurrent calls than max, a call waits exactly while    *)
(* max calls hold the connections, and gets the connection that one of     *)
(* them releases (max = 2 and three calls of query: the third waits for a  *)
(* release by one of the first two, then proceeds).                        *)
(***************************************************************************)
C17_NeverMoreThanMax ==
    /\ total <= PoolMax
    /\ Cardinality(Holders) + idle = total
    /\ \A c \in Users : pq[c] = "waiting" <=> (\E i \in 1..Len(waitQueue) : waitQueue[i] = c)
    /\ (waitQueue # <<>> /\ ~poolEnding) => (Cardinality(Holders) = PoolMax /\ idle = 0)

\* a call of query that had to wait now runs on a released connection, and the
\* pool is full again
C17_Witness ==
    /\ ~poolEnding
    /\ total = PoolMax
    /\ \E c \in QueryUsers :
          /\ c \in waited
          /\ pq[c] = "running"
          /\ \E d \in QueryUsers : pq[d] = "resolved"

(***************************************************************************)
(* C18: transaction never swallows or replaces a body error: whenever the  *)
(* callback throws error E, the call rejects with exactly E, also when the *)
(* cleanup ROLLBACK fails and when the timeout path has already released   *)
(* the connection.                                                         *)
(***************************************************************************)
C18_BodyErrorPropagates ==
    (body = "threw" /\ tpc = "rejected") => outcome = "bodyError"

(***************************************************************************)
(* C19: if the callback issues one successful statement (or more) and then *)
(* throws, the effects of its statements are not visible in the database   *)
(* once transaction() has rejected, and none is left pending in an open    *)
(* transaction: the rollback has taken place before the call returns.      *)
(***************************************************************************)
C19_ThrowLeavesNothingVisible ==
    (body = "threw" /\ stmtsOk >= 1 /\ tpc = "rejected") =>
        /\ visible = 0
        /\ pending = 0
        /\ ~inTx

\* one statement succeeded, the callback threw, the catch block rolled back
\* and released, and the timer never fired
C19_Witness ==
    /\ body = "threw"
    /\ stmtsOk = 1
    /\ tpc = "rejected"
    /\ outcome = "bodyError"
    /\ firedAt = "none"
    /\ Positions(log, {"ROLLBACK"}) # {}
    /\ visible = 0

(***************************************************************************)
(* C20: if the timeout timer fires before the connection has been          *)
(* released, the callback's result is discarded: transaction() never       *)
(* resolves with the callback's return value in an execution where the     *)
(* timer callback ran.                                                     *)
(***************************************************************************)
C20_TimerFiredNeverResolves ==
    firedAt # "none" => ~(tpc = "resolved" /\ outcome = "result")

(***************************************************************************)
(* C21: reading the snapshot is a pure read: a step in which the monitor   *)
(* callback runs, or in which healthCheck advances or returns, leaves      *)
(* totalQueries, failedQueries, avgQueryTime, lastError and lastErrorTime  *)
(* of connectionMetrics unchanged; the liveness query of healthCheck is    *)
(* not counted.                                                            *)
(***************************************************************************)
C21_SnapshotIsPureRead ==
    [][(\/ ticks' # ticks
        \/ pq'[HealthUser] # pq[HealthUser]
        \/ healthResult' # healthResult) => UNCHANGED metricsVars]_vars

\* the monitor ticked and healthCheck returned 'healthy' while the metrics
\* held one success, failures and an error of the pool
C21_Witness ==
    /\ ticks >= 1
    /\ healthResult.status = "healthy"
    /\ totalQueries = 1
    /\ failedQueries >= 1
    /\ mLastError # "null"

\* a round trip settles that is not the one the call is racing now
LateSettles ==
    \E o \in outstanding :
        /\ o \notin outstanding'
        /\ ~(qpc = "race" /\ o = <<calls, attempt>>)

(***************************************************************************)
(* C22: a late response to an attempt that the 30 s timeout race has       *)
(* already declared failed is discarded: the step in which it arrives, as  *)
(* a result or as an error, returns nothing to the caller of query (the    *)
(* call stays where it is, with the error it has) and changes none of      *)
(* totalQueries, failedQueries and avgQueryTime.                           *)
(***************************************************************************)
C22_LateResponseDiscarded ==
    [][LateSettles => UNCHANGED <<qpc, qError, attempt, totalQueries, failedQueries,
                                  avgTimesTotal>>]_vars

\* the first attempt timed out, the call succeeded on a later attempt, and the
\* response to the first attempt has since arrived
C22_Witness ==
    /\ qpc = "resolved"
    /\ lastCause = "raceTimeout"
    /\ attemptsMade >= 2
    /\ \A o \in outstanding : o[1] # calls
    /\ totalQueries = 1

(***************************************************************************)
(* C26: in every reachable state failedQueries <= totalQueries, so the     *)
(* successRate the monitor computes lies between 0% and 100% whenever      *)
(* totalQueries > 0.                                                       *)
(***************************************************************************)
C26_FailedAtMostTotal ==
    /\ failedQueries <= totalQueries
    /\ totalQueries > 0 =>
          /\ SuccessRate(totalQueries, failedQueries) >= 0
          /\ SuccessRate(totalQueries, failedQueries) <= 10000

\* a call of query returns its result in this step
CallReturns == totalQueries' = totalQueries + 1

(***************************************************************************)
(* C28 as stated: the duration query folds into avgQueryTime for a call    *)
(* that succeeds on attempt k is the duration of that attempt only,        *)
(* without the earlier failed attempts and the backoff waits.              *)
(***************************************************************************)
C28_DurationOfAttemptOnly ==
    [][CallReturns => avgTimesTotal' - avgTimesTotal = qStart' - qStart]_vars

(***************************************************************************)
(* C28 amended: the duration query folds into avgQueryTime for a call that *)
(* succeeds on attempt k is the time since the call began: it includes the *)
(* k earlier failed attempts and the backoff waits before the retries.     *)
(***************************************************************************)
C28_DurationSinceCallBegan ==
    [][CallReturns => avgTimesTotal' - avgTimesTotal = qStart']_vars

\* the only successful call so far timed out twice, waited 2 s and 4 s, and
\* returned 20 ms into its third attempt: 66020 ms were folded in
C28_Witness ==
    /\ qpc = "resolved"
    /\ totalQueries = 1
    /\ attemptsMade = 3
    /\ waits = <<Backoff(1), Backoff(2)>>
    /\ avgTimesTotal = 2 * QueryTimeoutMs + Backoff(1) + Backoff(2) + 20
    /\ avgTimesTotal = qStart

(***************************************************************************)
(* C24: safeClientQuery calls client.release exactly once per acquired     *)
(* client in every interleaving of the callback's completion (return or    *)
(* throw) and the 30 s safety timer: never twice, never both by the timer  *)
(* and by the main path, and once by the time the call has settled.        *)
(***************************************************************************)
C24_SafeReleasesExactlyOnce ==
    /\ Releases(slog) <= 1
    /\ (SafeSettled /\ SafeAcquired) => Releases(slog) = 1
    /\ sReleased <=> Releases(slog) = 1

\* the safety timer fired and released the client, and the callback threw
\* afterwards: still one release
C24_Witness ==
    /\ stimer = "fired"
    /\ spc = "rejected"
    /\ sbody = "threw"
    /\ slog[FirstRelease(slog)] = Ev("timer", "releaseErr")
    /\ Releases(slog) = 1

SimpleSettled(x) == x.pc \in {"resolved", "rejected"}
SimpleAcquired(x) == x.client # "none"

(***************************************************************************)
(* C23: in the simple pool module, transaction(callback) releases its      *)
(* client exactly once on every path (body success, body error, the 30 s   *)
(* timer firing before the body finishes): never twice, and once by the    *)
(* time the call has settled.                                              *)
(***************************************************************************)
C23_SimpleReleasesExactlyOnce ==
    \A t \in DOMAIN simpleTxns :
      /\ Releases(simpleTxns[t].log) <= 1
      /\ (SimpleSettled(simpleTxns[t]) /\ SimpleAcquired(simpleTxns[t])) =>
            Releases(simpleTxns[t].log) = 1

(***************************************************************************)
(* C25: a transaction is all-or-nothing even when the timeout fires in the *)
(* middle of the callback: no statement the callback issues after the      *)
(* timer callback has issued ROLLBACK takes durable effect, and once       *)
(* transaction() has settled either all of the callback's statements are   *)
(* in the database or none is.                                             *)
(***************************************************************************)
C25_AllOrNothing ==
    /\ orphaned = 0
    /\ TxnSettled => visible + orphaned \in {0, bodyStmts}

(***************************************************************************)
(* C27: if pool.connect() fails inside transaction or safeClientQuery, the *)
(* call rejects with that error and nothing else happens, then or later:   *)
(* no timer is armed, no BEGIN or ROLLBACK is issued and release is never  *)
(* called.                                                                 *)
(***************************************************************************)
C27_ConnectFailureDoesNothingElse ==
    /\ outcome = "connectError" =>
          /\ tpc = "rejected"
          /\ timer = "unset" /\ tmpc = "none"
          /\ log = <<>> /\ clientQueue = <<>>
          /\ client = "none" /\ ~isReleased
    /\ soutcome = "connectError" =>
          /\ spc = "rejected"
          /\ stimer = "unset"
          /\ slog = <<>> /\ safeQueue = <<>>
          /\ sclient = "none" /\ ~sReleased

\* pool.connect() has failed in both functions
C27_Witness ==
    /\ outcome = "connectError" /\ tpc = "rejected"
    /\ soutcome = "connectError" /\ spc = "rejected"

(***************************************************************************)
(* C29: each OTP stored by /send-otp is accepted by at most one            *)
(* /verify-otp request: in any interleaving of concurrent requests for the *)
(* same phone at most one passes the OTP checks and starts the             *)
(* registration transaction; a request with a wrong OTP leaves the store   *)
(* unchanged; an expired OTP is rejected and removed.                      *)
(***************************************************************************)
C29_OtpAcceptedAtMostOnce ==
    \A v \in DOMAIN verifyReqs :
      /\ \A w \in DOMAIN verifyReqs :
           (/\ verifyReqs[v].verdict = "accepted" /\ verifyReqs[w].verdict = "accepted"
            /\ verifyReqs[v].found.gen = verifyReqs[w].found.gen) => v = w
      /\ verifyReqs[v].verdict = "wrong" =>
            (verifyReqs[v].left = verifyReqs[v].found /\ verifyReqs[v].status = 400)
      /\ verifyReqs[v].verdict = "expired" =>
            (verifyReqs[v].left = NoOtp /\ verifyReqs[v].status = 400)

\* what verifyToken has produced for a request: calls of next() and responses
Outcomes(req) == req.nextCalls + Len(req.responses)

(***************************************************************************)
(* C30: for every request verifyToken produces exactly one outcome, either *)
(* next() or one HTTP response: never more than one, and one once it has   *)
(* finished; next() is called only when the token verified, the user row   *)
(* was found and is_active is true; when the 5 s timeout wins the race     *)
(* against the user lookup the request is answered with an error, and the  *)
(* late lookup result triggers neither next() nor a second response.       *)
(***************************************************************************)
C30_ExactlyOneOutcome ==
    \A r \in DOMAIN authReqs :
      LET req == authReqs[r]
      IN /\ Outcomes(req) <= 1
         /\ req.pc = "done" => Outcomes(req) = 1
         /\ req.pc # "done" => Outcomes(req) = 0
         /\ req.nextCalls = 1 =>
               (req.token = "valid" /\ req.lookup = "active" /\ req.reqUser)
         /\ req.winner = "timer" => (req.nextCalls = 0 /\ req.responses = <<500>>)

\* the timeout won the race for one request, which was answered 500, and the
\* lookup has since found an active user; another request went to next()
C30_Witness ==
    \E r, q \in DOMAIN authReqs :
      /\ authReqs[r].winner = "timer" /\ authReqs[r].lookup = "active"
      /\ authReqs[r].responses = <<500>>
      /\ authReqs[q].nextCalls = 1 /\ authReqs[q].timer = "fired"

====
